---------------------------- MODULE Spec2Model ----------------------------
(***************************************************************************)
(* Model of dxfwrite/dimlines.py: the dimstyle registry (dimstyles), one   *)
(* DimensionLine object, and the calls made on them (dimstyles.new, the    *)
(* constructor, set_text, __dxf__).                                        *)
(*                                                                         *)
(* Numbers.  Lengths are fixed-point integers in thousandths of a drawing  *)
(* unit (0.05 is 50, 0.3 is 300).  The dimension-line angle is 0 or 90     *)
(* degrees, so every hypot() the code takes during a render is that of an  *)
(* axis-parallel vector and is exact; the arithmetic is that of the reals, *)
(* not of IEEE doubles.  Text is a sequence of one-character strings.      *)
(* Python's None is the string "None".                                     *)
(*                                                                         *)
(* Callers.  One DimensionLine is constructed; its measure points are      *)
(* pairwise different; set_text is called before the first __dxf__();      *)
(* dimstyles.new is called at any time.  Ray2D (dxfwrite/ray.py) is        *)
(* modelled as the line through a point with a direction, its intersect    *)
(* as the solution of the two line equations.                              *)
(***************************************************************************)
EXTENDS Integers, Sequences, FiniteSets, TLC

VARIABLES
    styles,           \* dimstyles._styles: registered name -> style
    constructed,      \* whether DimensionLine.__init__ has returned
    dimstyle,         \* self.dimstyle
    layer,            \* self.layer
    data,             \* self.data (DXFList), the emitted entities
    angle,            \* self.angle
    measure_points,   \* self.measure_points
    text_override,    \* self.text_override
    dimlinepos,       \* self.dimlinepos
    dimline_points,   \* self.dimline_points (<<>> until the first render)
    point_order,      \* self.point_order (<<>> until the first render)
    parallel_vector,  \* self.parallel_vector (<<>> until set)
    normal_vector,    \* self.normal_vector (<<>> until set)
    renders,          \* number of __dxf__() calls made on the object
    raised,           \* exception raised by the last call on the object,
                      \* "" if it returned
    first             \* an earlier DimensionLine, kept by the caller when it
                      \* constructs another one: its fields after its render

vars == <<styles, constructed, dimstyle, layer, data, angle, measure_points,
          text_override, dimlinepos, dimline_points, point_order,
          parallel_vector, normal_vector, renders, raised, first>>

objvars == <<constructed, dimstyle, layer, data, angle, measure_points,
             text_override, dimlinepos, dimline_points, point_order,
             parallel_vector, normal_vector, renders>>

-----------------------------------------------------------------------------
(* Bounds and input sets *)

MaxPoints == 3        \* longest measure_points list passed to the constructor
MaxRenders == 2       \* __dxf__() calls made on the object

None == "None"

\* measure points handed to the constructor; one carries a z value
Points == { <<100, 150>>, <<500, 400>>, <<500, 700, 7>>, <<300, 100>> }
Positions == { <<100, 100, 9>> }
Angles == {0, 90}
Layers == {None, "", "LAYER_A"}
StyleNames == {"Default"}            \* names passed to dimstyles.new
LookupNames == {"Default", "dots"}   \* names passed to the constructor
Texts == { <<"T">> }                 \* texts passed to set_text
Sections == (0 - MaxPoints) .. (MaxPoints - 1)  \* indices passed to set_text

\* keyword arguments passed to dimstyles.new
StyleKwargs ==
    { [layer |-> "LAYER_B", tick2x |-> TRUE, dimextlinegap |-> 0,
       dimlineext |-> 0, roundval |-> 1, prefix |-> <<"x", "=">>],
      [dimextline |-> FALSE, scale |-> 1, suffix |-> <<"m">>] }

\* lists of pairwise different measure points
PointLists ==
    UNION { { list \in [1..n -> Points] :
                \A i, j \in 1..n : list[i] = list[j] => i = j }
            : n \in 0..MaxPoints }

-----------------------------------------------------------------------------
(* Python built-ins used by the module *)

Truthy(x) == x # None /\ x # ""

cmp(a, b) == IF a < b THEN -1 ELSE IF a > b THEN 1 ELSE 0

max(a, b) == IF a > b THEN a ELSE b

\* list[i] is defined for -len <= i < len
IndexInRange(list, i) == (0 - Len(list)) <= i /\ i < Len(list)

\* list[i], with Python's negative indices
PyIndex(list, i) == IF i < 0 THEN list[Len(list) + i + 1] ELSE list[i + 1]

\* the list after list[i] = value
PySetItem(list, i, value) ==
    IF i < 0 THEN [list EXCEPT ![Len(list) + i + 1] = value]
             ELSE [list EXCEPT ![i + 1] = value]

\* [value] * count: the empty list for count <= 0
PyRepeat(value, count) == [i \in 1..count |-> value]

\* range(lo, hi) as a sequence
range(lo, hi) == [i \in 1..(hi - lo) |-> lo + i - 1]

RECURSIVE IsqrtBetween(_, _, _)
IsqrtBetween(n, lo, hi) ==
    IF lo >= hi THEN lo
    ELSE LET mid == (lo + hi + 1) \div 2
         IN IF mid * mid <= n THEN IsqrtBetween(n, mid, hi)
                              ELSE IsqrtBetween(n, lo, mid - 1)

\* math.hypot(x, y), exact when x = 0 or y = 0
hypot(x, y) == IsqrtBetween(x * x + y * y, 0, 2000)

Abs(x) == IF x < 0 THEN 0 - x ELSE x

\* x / y for a quotient that is a whole number of thousandths
Div(x, y) == IF (x < 0) = (y < 0) THEN Abs(x) \div Abs(y)
                                  ELSE 0 - (Abs(x) \div Abs(y))

-----------------------------------------------------------------------------
(* Private 2d algorithmic functions *)

vector2d(vector) == <<vector[1], vector[2]>>

magnitude(vector) == hypot(vector[1], vector[2])

vsub(vector1, vector2) == <<vector1[1] - vector2[1], vector1[2] - vector2[2]>>

vadd(vector1, vector2) == <<vector1[1] + vector2[1], vector1[2] + vector2[2]>>

\* scalar is a plain number here (2. in midpoint)
vdiv_scalar(vector, scalar) == <<Div(vector[1], scalar), Div(vector[2], scalar)>>

\* a length (thousandths) times a unit vector (thousandths): thousandths
vmul_scalar(vector, scalar) ==
    <<Div(vector[1] * scalar, 1000), Div(vector[2] * scalar, 1000)>>

\* unit_vector raises ZeroDivisionError for a vector of magnitude 0
unit_vector_raises(vector) == magnitude(vector) = 0

\* vector / |vector|, components in thousandths
unit_vector(vector) ==
    <<Div(vector[1] * 1000, magnitude(vector)),
      Div(vector[2] * 1000, magnitude(vector))>>

normal_vector_of(vector) == <<0 - vector[2], vector[1]>>

distance(point1, point2) == hypot(point1[1] - point2[1], point1[2] - point2[2])

midpoint(point1, point2) == vdiv_scalar(vadd(point1, point2), 2)

-----------------------------------------------------------------------------
(* Styles *)

DIMENSIONS_MIN_DISTANCE == 50

default_values ==
    [tick |-> "DIMTICK_ARCH", tickfactor |-> 1000, tick2x |-> FALSE,
     scale |-> 100, roundval |-> 0, roundhalf |-> FALSE, textcolor |-> 7,
     height |-> 500, prefix |-> <<>>, suffix |-> <<>>, style |-> "ISOCPEUR",
     layer |-> "DIMENSIONS", dimlinecolor |-> 7, dimlineext |-> 300,
     textabove |-> 200, dimextline |-> TRUE, dimextlinecolor |-> 5,
     dimextlinegap |-> 300]

\* _DimStyle(name, **kwargs): the defaults, then the name, then the kwargs
DimStyle(name, kwargs) == kwargs @@ [name |-> name] @@ default_values

\* dimstyles.default
default == DimStyle("Default", <<>>)

\* get with the fallback looked up in the registry first
get_fallback_registered(name) ==
    IF name \in DOMAIN styles THEN styles[name]
    ELSE IF "Default" \in DOMAIN styles THEN styles["Default"] ELSE default

\* dimstyles.get(name)
get(name) == IF name \in DOMAIN styles THEN styles[name] ELSE default

\* self.prop(property_name)
prop(property_name) ==
    IF property_name = "layer"
    THEN IF Truthy(layer) THEN layer ELSE dimstyle.layer
    ELSE dimstyle[property_name]

-----------------------------------------------------------------------------
(* Ray2D: a line through origin with direction dir *)

cross(v, w) == v[1] * w[2] - v[2] * w[1]

\* Ray2D(point, angle=radians(angle)) for the angles of the model
Ray2D(point, degrees) ==
    [origin |-> point, dir |-> IF degrees = 0 THEN <<1, 0>> ELSE <<0, 1>>]

\* ray.normal_through(point)
normal_through(ray, point) ==
    [origin |-> point, dir |-> normal_vector_of(ray.dir)]

\* ray.intersect(other), for rays that are not parallel
intersect(ray, other) ==
    LET det == cross(ray.dir, other.dir)
        t   == cross(vsub(other.origin, ray.origin), other.dir)
    IN <<ray.origin[1] + Div(ray.dir[1] * t, det),
         ray.origin[2] + Div(ray.dir[2] * t, det)>>

\* DimensionLine._get_point_on_dimline(point, dimray)
_get_point_on_dimline(point, dimray) ==
    intersect(dimray, normal_through(dimray, point))

-----------------------------------------------------------------------------
(* Ordering of the points on the dimension line *)

\* the comparison without the tie-break on y
_cmp_indexed_points_x_only(ipoint1, ipoint2) ==
    cmp(ipoint1[2][1], ipoint2[2][1])

\* _cmp_indexed_points(ipoint1, ipoint2), an indexed point is <<idx, point>>
_cmp_indexed_points(ipoint1, ipoint2) ==
    LET point1 == ipoint1[2]
        point2 == ipoint2[2]
    IN IF point1[1] = point2[1] THEN cmp(point1[2], point2[2])
                                ELSE cmp(point1[1], point2[1])

\* insert item behind the last element that does not compare greater
RECURSIVE InsertSorted(_, _)
InsertSorted(sorted, item) ==
    IF sorted = <<>> THEN <<item>>
    ELSE IF _cmp_indexed_points(sorted[Len(sorted)], item) <= 0
         THEN Append(sorted, item)
         ELSE Append(InsertSorted(SubSeq(sorted, 1, Len(sorted) - 1), item),
                     sorted[Len(sorted)])

\* list.sort(cmp): a stable sort
RECURSIVE SortIndexed(_)
SortIndexed(items) ==
    IF items = <<>> THEN <<>>
    ELSE InsertSorted(SortIndexed(SubSeq(items, 1, Len(items) - 1)),
                      items[Len(items)])

\* the indices as they come, the points not sorted
_indices_of_sorted_points_input_order(points) ==
    [i \in 1..Len(points) |-> i - 1]

\* DimensionLine._indices_of_sorted_points(points): 0-based indices
_indices_of_sorted_points(points) ==
    LET indexed_points == [i \in 1..Len(points) |-> <<i - 1, points[i]>>]
        sorted == SortIndexed(indexed_points)
    IN [i \in 1..Len(sorted) |-> sorted[i][1]]

-----------------------------------------------------------------------------
(* str.format and str.rstrip *)

Pow10(e) == IF e = 0 THEN 1 ELSE IF e = 1 THEN 10 ELSE IF e = 2 THEN 100 ELSE 1000

\* num / den rounded to a whole number, halves to the even neighbour
RoundHalfEven(num, den) ==
    LET q == num \div den
        r == num % den
    IN IF 2 * r > den THEN q + 1
       ELSE IF 2 * r = den THEN q + (q % 2)
       ELSE q

Char(d) == <<"0", "1", "2", "3", "4", "5", "6", "7", "8", "9">>[d + 1]

RECURSIVE Digits(_)
Digits(n) == IF n < 10 THEN <<Char(n)>>
             ELSE Append(Digits(n \div 10), Char(n % 10))

RECURSIVE ZeroPad(_, _)
ZeroPad(digits, width) ==
    IF Len(digits) >= width THEN digits ELSE ZeroPad(<<"0">> \o digits, width)

\* "{0:.{1}f}".format(value, roundval), value in thousandths
FormatFixed(value, roundval) ==
    LET m == RoundHalfEven(value * Pow10(roundval), 1000)
    IN Digits(m \div Pow10(roundval)) \o
       (IF roundval > 0
        THEN <<".">> \o ZeroPad(Digits(m % Pow10(roundval)), roundval)
        ELSE <<>>)

\* text.rstrip(ch)
RECURSIVE rstrip(_, _)
rstrip(text, ch) ==
    IF text # <<>> /\ text[Len(text)] = ch
    THEN rstrip(SubSeq(text, 1, Len(text) - 1), ch)
    ELSE text

-----------------------------------------------------------------------------
(* Entities appended to self.data *)

\* DXFEngine.line(start, end, color=, layer=)
line(start, end, color, lay) ==
    [dxftype |-> "LINE", start |-> start, end |-> end, color |-> color,
     layer |-> lay]

\* DXFEngine.text(text=, insert=, height=, ..., layer=, rotation=, style=, alignpoint=)
text(content, insert_point, height, lay, rotation, style) ==
    [dxftype |-> "TEXT", text |-> content, insert |-> insert_point,
     height |-> height, halign |-> "CENTER", valign |-> "MIDDLE",
     layer |-> lay, rotation |-> rotation, style |-> style,
     alignpoint |-> insert_point]

\* tick(point, rotate) of _draw_ticks: DXFEngine.insert(...)
tick(point, rotate) ==
    [dxftype |-> "INSERT", insert |-> point, blockname |-> prop("tick"),
     rotation |-> angle + (IF rotate THEN 180 ELSE 0),
     xscale |-> prop("tickfactor"), yscale |-> prop("tickfactor"),
     layer |-> prop("layer")]

-----------------------------------------------------------------------------
(* DimensionLine: the render.  self is the object's geometry as            *)
(* _setup_dimension_line leaves it: measure_points, dimline_points,        *)
(* point_order, parallel_vector, normal_vector.                            *)

section_count(points) == Len(points) - 1

point_count(points) == Len(points)

_get_dimline_point(self, index) ==
    self.dimline_points[PyIndex(self.point_order, index) + 1]

_get_section_points(self, section) ==
    <<_get_dimline_point(self, section), _get_dimline_point(self, section + 1)>>

_get_dimline_bounds(self) ==
    <<_get_dimline_point(self, 0), _get_dimline_point(self, -1)>>

\* _setup_dimension_line, _build_vectors included; exc names what it raises
_setup_dimension_line ==
    LET points == [i \in 1..Len(measure_points) |-> vector2d(measure_points[i])]
        dimlineray == Ray2D(dimlinepos, angle)
        projected == [i \in 1..Len(points) |->
                         _get_point_on_dimline(points[i], dimlineray)]
        order == _indices_of_sorted_points(projected)
        self == [measure_points |-> points, dimline_points |-> projected,
                 point_order |-> order,
                 parallel_vector |-> parallel_vector,
                 normal_vector |-> normal_vector]
    IN IF order = <<>>
       THEN [exc |-> "IndexError"] @@ self
       ELSE LET bounds == _get_dimline_bounds(self)
                along == vsub(bounds[2], bounds[1])
            IN IF unit_vector_raises(along)
               THEN [exc |-> "ZeroDivisionError"] @@ self
               ELSE [exc |-> "",
                     parallel_vector |-> unit_vector(along),
                     normal_vector |-> normal_vector_of(unit_vector(along))]
                    @@ self

_draw_dimline(self) ==
    LET bounds == _get_dimline_bounds(self)
        dimlineext == prop("dimlineext")
        start_point == IF dimlineext > 0
                       THEN vsub(bounds[1],
                                 vmul_scalar(self.parallel_vector, dimlineext))
                       ELSE bounds[1]
        end_point == IF dimlineext > 0
                     THEN vadd(bounds[2],
                               vmul_scalar(self.parallel_vector, dimlineext))
                     ELSE bounds[2]
    IN <<line(start_point, end_point, prop("dimlinecolor"), prop("layer"))>>

\* the test with >= for >
extension_line_drawn_at_gap(dimline_point, target_point, dimextlinegap) ==
    distance(dimline_point, target_point) >=
        max(dimextlinegap, DIMENSIONS_MIN_DISTANCE)

\* the test of _draw_extension_lines: is a line drawn for this pair
extension_line_drawn(dimline_point, target_point, dimextlinegap) ==
    distance(dimline_point, target_point) >
        max(dimextlinegap, DIMENSIONS_MIN_DISTANCE)

_draw_extension_lines(self) ==
    LET dimextlinegap == prop("dimextlinegap")
        drawn(i) == extension_line_drawn(self.dimline_points[i],
                                         self.measure_points[i], dimextlinegap)
        pairs == SelectSeq(range(1, Len(self.dimline_points) + 1), drawn)
        entity(i) ==
            LET dimline_point == self.dimline_points[i]
                target_point == self.measure_points[i]
                direction_vector == unit_vector(vsub(target_point, dimline_point))
            IN line(dimline_point,
                    vsub(target_point,
                         vmul_scalar(direction_vector, dimextlinegap)),
                    prop("dimextlinecolor"), prop("layer"))
    IN [k \in 1..Len(pairs) |-> entity(pairs[k])]

\* the value measured between the original measure points
_get_dimvalue_text_measure_points(self, section) ==
    LET override == text_override[section + 1]
        point1 == self.measure_points[PyIndex(self.point_order, section) + 1]
        point2 == self.measure_points[PyIndex(self.point_order, section + 1) + 1]
        dimvalue == distance(point1, point2) * prop("scale")
        dimtext == FormatFixed(dimvalue, prop("roundval"))
    IN IF Len(override) # 0 THEN override
       ELSE prop("prefix") \o dimtext \o prop("suffix")

_get_dimvalue_text(self, section) ==
    LET override == text_override[section + 1]
        points == _get_section_points(self, section)
        dimvalue == distance(points[1], points[2]) * prop("scale")
        dimtext == FormatFixed(dimvalue, prop("roundval"))
        \* the two rstrip results are dropped by the code
        stripped == rstrip(rstrip(dimtext, "0"), ".")
    IN IF Len(override) # 0 THEN override
       ELSE prop("prefix") \o dimtext \o prop("suffix")

_get_text_insert_point(self, section) ==
    LET points == _get_section_points(self, section)
        dist == (prop("height") \div 2) + prop("textabove")
    IN vadd(midpoint(points[1], points[2]),
            vmul_scalar(self.normal_vector, dist))

_draw_text(self) ==
    [s \in 1..section_count(self.measure_points) |->
        text(_get_dimvalue_text(self, s - 1),
             _get_text_insert_point(self, s - 1),
             prop("height"), prop("layer"), angle, prop("style"))]

\* tick2x with both passes over all the points
_draw_ticks_all_points_twice(self) ==
    LET n == point_count(self.measure_points)
        set_tick(index, rotate) == tick(_get_dimline_point(self, index), rotate)
    IN IF prop("tick2x")
       THEN [k \in 1..n |-> set_tick(range(0, n)[k], FALSE)] \o
            [k \in 1..n |-> set_tick(range(0, n)[k], TRUE)]
       ELSE [k \in 1..n |-> set_tick(range(0, n)[k], FALSE)]

_draw_ticks(self) ==
    LET n == point_count(self.measure_points)
        set_tick(index, rotate) == tick(_get_dimline_point(self, index), rotate)
    IN IF prop("tick2x")
       THEN [k \in 1..(n - 1) |-> set_tick(range(0, n - 1)[k], FALSE)] \o
            [k \in 1..(n - 1) |-> set_tick(range(1, n)[k], TRUE)]
       ELSE [k \in 1..n |-> set_tick(range(0, n)[k], FALSE)]

\* ticks drawn before the text
_build_dimline_ticks_first ==
    LET self == _setup_dimension_line
    IN IF self.exc # "" THEN [data |-> data] @@ self
       ELSE [data |-> data \o _draw_dimline(self)
                          \o (IF prop("dimextline")
                              THEN _draw_extension_lines(self) ELSE <<>>)
                          \o _draw_ticks(self)
                          \o _draw_text(self)] @@ self

\* the dimension line drawn before the vectors are built
_build_dimline_line_first ==
    LET self == _setup_dimension_line
        bounds == _get_dimline_bounds(self)
    IN IF self.exc = "IndexError" THEN [data |-> data] @@ self
       ELSE IF self.exc # ""
       THEN [data |-> Append(data, line(bounds[1], bounds[2],
                                        prop("dimlinecolor"), prop("layer")))]
            @@ self
       ELSE [data |-> data \o _draw_dimline(self)
                          \o (IF prop("dimextline")
                              THEN _draw_extension_lines(self) ELSE <<>>)
                          \o _draw_text(self)
                          \o _draw_ticks(self)] @@ self

\* _build_dimline: the object after it, data included; exc as above
_build_dimline ==
    LET self == _setup_dimension_line
    IN IF self.exc # "" THEN [data |-> data] @@ self
       ELSE [data |-> data \o _draw_dimline(self)
                          \o (IF prop("dimextline")
                              THEN _draw_extension_lines(self) ELSE <<>>)
                          \o _draw_text(self)
                          \o _draw_ticks(self)] @@ self

-----------------------------------------------------------------------------
(* The calls *)

Init ==
    /\ styles = <<>>
    /\ constructed = FALSE
    /\ dimstyle = default
    /\ layer = None
    /\ data = <<>>
    /\ angle = 0
    /\ measure_points = <<>>
    /\ text_override = <<>>
    /\ dimlinepos = <<0, 0>>
    /\ dimline_points = <<>>
    /\ point_order = <<>>
    /\ parallel_vector = <<>>
    /\ normal_vector = <<>>
    /\ renders = 0
    /\ raised = ""
    /\ first = [constructed |-> FALSE]

\* dimstyles.new(name, **kwargs)
new(name, kwargs) ==
    /\ styles' = (name :> DimStyle(name, kwargs)) @@ styles
    /\ UNCHANGED <<objvars, raised, first>>

\* DimensionLine(pos, measure_points, angle, dimstyle, layer)
__init__(pos, points, degrees, stylename, lay) ==
    /\ ~constructed
    /\ constructed' = TRUE
    /\ dimstyle' = get(stylename)
    /\ layer' = lay
    /\ data' = <<>>
    /\ angle' = degrees
    /\ measure_points' = points
    /\ text_override' = PyRepeat(<<>>, section_count(points))
    /\ dimlinepos' = vector2d(pos)
    /\ raised' = ""
    /\ UNCHANGED <<styles, dimline_points, point_order, parallel_vector,
                   normal_vector, renders, first>>

\* self.set_text(section, text), called before the object is rendered
set_text(section, content) ==
    /\ constructed
    /\ renders = 0
    /\ IF IndexInRange(text_override, section)
       THEN /\ text_override' = PySetItem(text_override, section, content)
            /\ raised' = ""
       ELSE /\ raised' = "IndexError"
            /\ UNCHANGED text_override
    /\ UNCHANGED <<styles, constructed, dimstyle, layer, data, angle,
                   measure_points, dimlinepos, dimline_points, point_order,
                   parallel_vector, normal_vector, renders, first>>

\* self.__dxf__()
__dxf__ ==
    /\ constructed
    /\ renders < MaxRenders
    /\ LET built == _build_dimline
       IN /\ measure_points' = built.measure_points
          /\ dimline_points' = built.dimline_points
          /\ point_order' = built.point_order
          /\ parallel_vector' = built.parallel_vector
          /\ normal_vector' = built.normal_vector
          /\ data' = built.data
          /\ raised' = built.exc
    /\ renders' = renders + 1
    /\ UNCHANGED <<styles, constructed, dimstyle, layer, angle, text_override,
                   dimlinepos, first>>

Next ==
    \/ \E name \in StyleNames, kwargs \in StyleKwargs : new(name, kwargs)
    \/ \E pos \in Positions, points \in PointLists, degrees \in Angles,
          stylename \in LookupNames, lay \in Layers :
            __init__(pos, points, degrees, stylename, lay)
    \/ \E section \in Sections, content \in Texts : set_text(section, content)
    \/ __dxf__

Spec == Init /\ [][Next]_vars

-----------------------------------------------------------------------------
(* Two objects: the caller keeps a rendered DimensionLine and constructs   *)
(* another one from the same measure points in another order.              *)

\* the lists that hold the measure points of the object, in any order
Reorderings ==
    { points \in PointLists :
        /\ Len(points) = Len(measure_points)
        /\ \A i \in 1..Len(points) : \E j \in 1..Len(measure_points) :
              vector2d(points[i]) = vector2d(measure_points[j]) }

\* DimensionLine(pos, points, angle, dimstyle, layer) once more, with the
\* position, angle and layer of the object rendered before and a style name
\* that still gives its style
__init__again(points) ==
    /\ constructed
    /\ renders = 1
    /\ raised = ""
    /\ ~first.constructed
    /\ get(dimstyle.name) = dimstyle
    /\ first' = [constructed |-> TRUE, dimstyle |-> dimstyle, layer |-> layer,
                 data |-> data, angle |-> angle,
                 measure_points |-> measure_points,
                 text_override |-> text_override, dimlinepos |-> dimlinepos,
                 dimline_points |-> dimline_points,
                 point_order |-> point_order,
                 parallel_vector |-> parallel_vector,
                 normal_vector |-> normal_vector]
    /\ dimstyle' = get(dimstyle.name)
    /\ layer' = layer
    /\ data' = <<>>
    /\ angle' = angle
    /\ measure_points' = points
    /\ text_override' = PyRepeat(<<>>, section_count(points))
    /\ dimlinepos' = vector2d(dimlinepos)
    /\ dimline_points' = <<>>
    /\ point_order' = <<>>
    /\ parallel_vector' = <<>>
    /\ normal_vector' = <<>>
    /\ renders' = 0
    /\ raised' = ""
    /\ UNCHANGED <<styles, constructed>>

\* here the styles are registered before the objects are constructed
NextPair ==
    \/ \E name \in StyleNames, kwargs \in StyleKwargs :
          ~constructed /\ new(name, kwargs)
    \/ \E pos \in Positions, points \in PointLists, degrees \in Angles,
          stylename \in LookupNames, lay \in Layers :
            __init__(pos, points, degrees, stylename, lay)
    \/ __dxf__
    \/ \E points \in Reorderings : __init__again(points)

SpecPair == Init /\ [][NextPair]_vars

-----------------------------------------------------------------------------
(* Notions used by the properties *)

\* the object has been rendered once, and the render returned
Rendered == constructed /\ renders = 1 /\ raised = ""

\* the entities of data of one DXF type, in order
OfType(entities, dxftype) ==
    SelectSeq(entities, LAMBDA e : e.dxftype = dxftype)

\* the projected point and the measure point at place i (0-based) of the
\* draw order
OrderedPoint(i) == dimline_points[point_order[i + 1] + 1]
OrderedTarget(i) == measure_points[point_order[i + 1] + 1]

\* the layer the three-tier lookup gives, with "supplied" read as given
LayerLookup(supplied, lay, stylename) ==
    IF supplied THEN lay
    ELSE IF stylename \in DOMAIN styles THEN styles[stylename].layer
    ELSE default_values.layer

\* the squared distance of measure point i from its projection
OffLineSquared(i) ==
    LET dx == measure_points[i][1] - dimline_points[i][1]
        dy == measure_points[i][2] - dimline_points[i][2]
    IN dx * dx + dy * dy

ExtThreshold ==
    IF dimstyle.dimextlinegap > DIMENSIONS_MIN_DISTANCE
    THEN dimstyle.dimextlinegap ELSE DIMENSIONS_MIN_DISTANCE

FarFromLine(i) == OffLineSquared(i) > ExtThreshold * ExtThreshold

\* the extension lines of the first render: the LINE entities after the first
ExtLines == Tail(OfType(data, "LINE"))

\* the length of section s (0-based) measured along the dimension line
AlongLine(s) ==
    IF angle = 0 THEN Abs(OrderedTarget(s)[1] - OrderedTarget(s + 1)[1])
                 ELSE Abs(OrderedTarget(s)[2] - OrderedTarget(s + 1)[2])

\* the length of section s (0-based) from measure point to measure point,
\* rounded down to a thousandth
PointToPoint(s) == distance(OrderedTarget(s), OrderedTarget(s + 1))

ValueText(length) ==
    dimstyle.prefix \o FormatFixed(length * dimstyle.scale, dimstyle.roundval)
                    \o dimstyle.suffix

LexLeq(p, q) == p[1] < q[1] \/ (p[1] = q[1] /\ p[2] <= q[2])

\* the segment is what one render of n points appends: the dimension line,
\* k extension lines, n-1 texts in section order, then only ticks
WellFormedSegment(segment, n, order, projected, normal) ==
    \E k \in 0..n :
        /\ Len(segment) >= k + n
        /\ (~dimstyle.dimextline => k = 0)
        /\ segment[1].dxftype = "LINE"
        /\ segment[1].color = dimstyle.dimlinecolor
        /\ \A i \in 2..(k + 1) :
              /\ segment[i].dxftype = "LINE"
              /\ segment[i].color = dimstyle.dimextlinecolor
        /\ \A i \in 1..(n - 1) :
              /\ segment[k + 1 + i].dxftype = "TEXT"
              /\ segment[k + 1 + i].insert =
                    vadd(midpoint(projected[order[i] + 1],
                                  projected[order[i + 1] + 1]),
                         vmul_scalar(normal, (dimstyle.height \div 2)
                                                 + dimstyle.textabove))
        /\ \A i \in (k + n + 1)..Len(segment) : segment[i].dxftype = "INSERT"
        /\ Len(segment) - (k + n) = IF dimstyle.tick2x THEN 2 * (n - 1) ELSE n

-----------------------------------------------------------------------------
(* The claims *)

\* C1 as stated: the constructor with style name S and layer L gives an
\* object whose prop('layer') is L whenever a layer was passed (L is not
\* None), else the layer of the style registered under S, else the layer of
\* the built-in Default style.
C1_LayerOfAnySuppliedLayer ==
    [][\A pos \in Positions, points \in PointLists, degrees \in Angles,
          stylename \in LookupNames, lay \in Layers :
            __init__(pos, points, degrees, stylename, lay)
                => prop("layer")' = LayerLookup(lay # None, lay, stylename)]_vars

\* C1 amended: prop('layer') is L when L is a non-empty layer name; for
\* L = None and for L = "" it is the layer of the style registered under S
\* when the constructor ran, else that of the built-in Default style; and
\* no later call changes it.
C1_LayerLookup ==
    [][/\ \A pos \in Positions, points \in PointLists, degrees \in Angles,
             stylename \in LookupNames, lay \in Layers :
               __init__(pos, points, degrees, stylename, lay)
                   => /\ raised' = ""
                      /\ prop("layer")' =
                            LayerLookup(lay # None /\ lay # "", lay, stylename)
       /\ constructed => prop("layer")' = prop("layer")]_vars

C1_Witness ==
    /\ constructed
    /\ layer = ""
    /\ dimstyle.name = "Default"
    /\ dimstyle # default
    /\ prop("layer") = "LAYER_B"

\* C2: no DimensionLine with fewer than two measure points gets constructed.
C2_TwoPointsAtConstruction ==
    constructed => point_count(measure_points) >= 2

\* C3: set_text with a section outside [0, section_count) raises and leaves
\* text_override as it was.
C3_SetTextOutsideRangeFails ==
    [][\A section \in Sections, content \in Texts :
          (/\ set_text(section, content)
           /\ ~(0 <= section /\ section < section_count(measure_points)))
              => raised' = "IndexError" /\ text_override' = text_override]_vars

\* C4: a render request on an object that was rendered before leaves the
\* emitted sequence as the first render left it.
C4_SecondRenderEmitsNothing ==
    [][(renders >= 1 /\ renders' = renders + 1) => data' = data]_vars

\* C5: with tick2x, 2(n-1) ticks: unrotated at the ordered points 0..n-2,
\* then rotated by 180 degrees at the ordered points 1..n-1; without it, n
\* unrotated ticks, one per ordered point.
C5_Ticks ==
    Rendered =>
        LET n == Len(measure_points)
            ticks == OfType(data, "INSERT")
        IN IF dimstyle.tick2x
           THEN /\ Len(ticks) = 2 * (n - 1)
                /\ \A k \in 1..(n - 1) :
                      /\ ticks[k].insert = OrderedPoint(k - 1)
                      /\ ticks[k].rotation = angle
                      /\ ticks[n - 1 + k].insert = OrderedPoint(k)
                      /\ ticks[n - 1 + k].rotation = angle + 180
           ELSE /\ Len(ticks) = n
                /\ \A k \in 1..n :
                      /\ ticks[k].insert = OrderedPoint(k - 1)
                      /\ ticks[k].rotation = angle

C5_Witness ==
    /\ Rendered
    /\ dimstyle.tick2x
    /\ Len(measure_points) = 3
    /\ Len(OfType(data, "INSERT")) = 4

\* C6: with the extension-line flag on, the measure points that get an
\* extension line are those farther from their projection than
\* max(dimextlinegap, 0.05), and there are as many lines as such points;
\* with the flag off there is none.
C6_ExtensionLines ==
    Rendered =>
        IF dimstyle.dimextline
        THEN /\ Len(ExtLines) =
                   Cardinality({i \in 1..Len(measure_points) : FarFromLine(i)})
             /\ \A i \in 1..Len(measure_points) :
                   FarFromLine(i) =>
                       \E k \in 1..Len(ExtLines) :
                           /\ ExtLines[k].start = dimline_points[i]
                           /\ LET d == ExtLines[k].end
                              IN \/ /\ d[1] = measure_points[i][1]
                                    /\ Abs(d[2] - measure_points[i][2])
                                           = dimstyle.dimextlinegap
                                    /\ angle = 0
                                 \/ /\ d[2] = measure_points[i][2]
                                    /\ Abs(d[1] - measure_points[i][1])
                                           = dimstyle.dimextlinegap
                                    /\ angle = 90
        ELSE ExtLines = <<>>

\* a point at exactly the gap from the line gets no extension line, one
\* farther off gets one
C6_Witness ==
    /\ Rendered
    /\ dimstyle.dimextline
    /\ \E i, j \in 1..Len(measure_points) :
          /\ OffLineSquared(i) = ExtThreshold * ExtThreshold
          /\ FarFromLine(j)
    /\ Len(ExtLines) = 1

\* C7 as stated: the text of a section without override is the distance
\* between the section's two original measure points, times the scale.
C7_ValueBetweenMeasurePoints ==
    Rendered =>
        \A s \in 1..section_count(measure_points) :
            text_override[s] = <<>> =>
                OfType(data, "TEXT")[s].text = ValueText(PointToPoint(s - 1))

\* C7 amended: the text of a section without override is the distance
\* between the projections of the section's two points on the dimension
\* line, that is the length of the section along the line, times the scale.
C7_ValueAlongLine ==
    Rendered =>
        /\ Len(OfType(data, "TEXT")) = section_count(measure_points)
        /\ \A s \in 1..section_count(measure_points) :
              text_override[s] = <<>> =>
                  OfType(data, "TEXT")[s].text = ValueText(AlongLine(s - 1))

C7_Witness ==
    /\ Rendered
    /\ \E s \in 1..section_count(measure_points) :
          /\ text_override[s] = <<>>
          /\ PointToPoint(s - 1) # AlongLine(s - 1)
          /\ OfType(data, "TEXT")[s].text = <<"4", "0">>

\* C8: after the prepare step of a list of n >= 2 points, point_order is a
\* permutation of 0..n-1, the projected points taken in that order do not
\* decrease by x, then y, and dimline_points[i] is still the projection of
\* measure_points[i].
C8_DrawOrder ==
    (constructed /\ renders >= 1 /\ Len(measure_points) >= 2) =>
        LET n == Len(measure_points)
        IN /\ Len(point_order) = n
           /\ Len(dimline_points) = n
           /\ \A i \in 0..(n - 1) : \E k \in 1..n : point_order[k] = i
           /\ \A k \in 1..(n - 1) :
                 LexLeq(OrderedPoint(k - 1), OrderedPoint(k))
           /\ \A i \in 1..n :
                 dimline_points[i] =
                     IF angle = 0 THEN <<measure_points[i][1], dimlinepos[2]>>
                                  ELSE <<dimlinepos[1], measure_points[i][2]>>

C8_Witness ==
    /\ constructed
    /\ renders >= 1
    /\ angle = 90
    /\ point_order = <<2, 0, 1>>

\* C9: a render only appends to data, and what one render of n points
\* appends is one dimension line, then at most n extension lines (none with
\* the flag off), then n-1 texts in section order, then the ticks.
C9_EmissionOrder ==
    [][/\ SubSeq(data', 1, Len(data)) = data
       /\ (renders' = renders + 1 /\ raised' = "") =>
             WellFormedSegment(SubSeq(data', Len(data) + 1, Len(data')),
                               Len(measure_points'), point_order',
                               dimline_points', normal_vector')
       /\ (renders' = renders \/ raised' # "") => data' = data]_vars

C9_Witness ==
    /\ Rendered
    /\ Len(measure_points) = 3
    /\ Len(ExtLines) = 2
    /\ Len(data) = 8

\* C10: when the first and the last ordered projected point coincide, the
\* render raises while it derives parallel_vector, and data holds nothing.
C10_DegenerateFailsFast ==
    (/\ constructed
     /\ renders >= 1
     /\ Len(point_order) >= 1
     /\ OrderedPoint(0) = OrderedPoint(Len(point_order) - 1))
        => /\ raised = "ZeroDivisionError"
           /\ parallel_vector = <<>>
           /\ normal_vector = <<>>
           /\ data = <<>>

C10_Witness ==
    /\ constructed
    /\ renders >= 1
    /\ Len(measure_points) = 2
    /\ measure_points[1] # measure_points[2]
    /\ dimline_points[1] = dimline_points[2]
    /\ raised = "ZeroDivisionError"

\* C11: two objects with the same position, angle and style, no text
\* override, and measure point lists that are reorderings of each other,
\* both rendered: the parallel and normal vectors are equal, and so are the
\* dimension line, the texts in order and the ticks in order.
C11_InputOrderIndependence ==
    (/\ first.constructed
     /\ Rendered
     /\ dimstyle = first.dimstyle
     /\ layer = first.layer
     /\ angle = first.angle
     /\ dimlinepos = first.dimlinepos
     /\ \A s \in 1..Len(text_override) : text_override[s] = <<>>
     /\ \A s \in 1..Len(first.text_override) : first.text_override[s] = <<>>
     /\ Len(measure_points) = Len(first.measure_points)
     /\ \A i \in 1..Len(measure_points) :
           \E j \in 1..Len(measure_points) :
               measure_points[i] = first.measure_points[j])
        => /\ parallel_vector = first.parallel_vector
           /\ normal_vector = first.normal_vector
           /\ data[1] = first.data[1]
           /\ OfType(data, "TEXT") = OfType(first.data, "TEXT")
           /\ OfType(data, "INSERT") = OfType(first.data, "INSERT")

\* three points given in two orders that put the extension lines in two
\* orders
C11_Witness ==
    /\ first.constructed
    /\ Rendered
    /\ dimstyle = first.dimstyle
    /\ Len(measure_points) = 3
    /\ measure_points # first.measure_points
    /\ point_order # first.point_order
    /\ Len(ExtLines) = 2
    /\ ExtLines # Tail(OfType(first.data, "LINE"))

=============================================================================
